---- MODULE Spec2Model ----
(***************************************************************************)
(* A model of aicommit (aicommit/commit.py): the message sanitizer, the    *)
(* message generator, the per-path commit orchestrator (commit_changes)    *)
(* and the release engine (run_release).                                   *)
(*                                                                         *)
(* Text is modelled as Python models it: a string is a sequence of         *)
(* one-character strings, and every regular expression of the source is    *)
(* written out as the set of strings it matches.                           *)
(***************************************************************************)
EXTENDS Integers, Sequences, FiniteSets, TLC

(***************************************************************************)
(* Characters and the str methods the source uses.                         *)
(***************************************************************************)
LowerS == <<"a","b","c","d","e","f","g","h","i","j","k","l","m",
            "n","o","p","q","r","s","t","u","v","w","x","y","z">>
UpperS == <<"A","B","C","D","E","F","G","H","I","J","K","L","M",
            "N","O","P","Q","R","S","T","U","V","W","X","Y","Z">>
Digits == <<"0","1","2","3","4","5","6","7","8","9">>

Range(f) == {f[x] : x \in DOMAIN f}

\* str.lower() / re.IGNORECASE on one character
Lower(c) ==
    IF \E k \in 1..26 : UpperS[k] = c
    THEN LowerS[CHOOSE k \in 1..26 : UpperS[k] = c]
    ELSE c

\* str.upper() on one character
Upper(c) ==
    IF \E k \in 1..26 : LowerS[k] = c
    THEN UpperS[CHOOSE k \in 1..26 : LowerS[k] = c]
    ELSE c

\* the characters \s matches and str.strip() removes
WS == {" ", "\t", "\n", "\r"}
\* the characters \w matches
WordChars == Range(LowerS) \cup Range(UpperS) \cup Range(Digits) \cup {"_"}

Take(s, n) == SubSeq(s, 1, n)
Drop(s, n) == SubSeq(s, n + 1, Len(s))
MapSeq(s, Op(_)) == [k \in 1..Len(s) |-> Op(s[k])]
LowerStr(s) == MapSeq(s, Lower)
UpperStr(s) == MapSeq(s, Upper)

\* how many leading / trailing characters of s are in C
LeadCount(s, C) ==
    IF \A k \in 1..Len(s) : s[k] \in C THEN Len(s)
    ELSE (CHOOSE n \in 0..(Len(s) - 1) :
            s[n + 1] \notin C /\ \A k \in 1..n : s[k] \in C)
TrailCount(s, C) ==
    IF \A k \in 1..Len(s) : s[k] \in C THEN Len(s)
    ELSE (CHOOSE n \in 0..(Len(s) - 1) :
            s[Len(s) - n] \notin C /\ \A k \in (Len(s) - n + 1)..Len(s) : s[k] \in C)

\* str.strip(chars)
StripSet(s, C) ==
    LET t == Drop(s, LeadCount(s, C))
    IN  Take(t, Len(t) - TrailCount(t, C))
\* str.strip()
Strip(s) == StripSet(s, WS)

\* the index of the first character of s that is in C, 0 when there is none
FirstIn(s, C) ==
    IF \E k \in 1..Len(s) : s[k] \in C
    THEN CHOOSE k \in 1..Len(s) : s[k] \in C /\ \A j \in 1..(k - 1) : s[j] \notin C
    ELSE 0

\* str.split(c) for a one-character separator
RECURSIVE SplitOn(_, _)
SplitOn(s, c) ==
    IF FirstIn(s, {c}) = 0 THEN <<s>>
    ELSE <<Take(s, FirstIn(s, {c}) - 1)>> \o SplitOn(Drop(s, FirstIn(s, {c})), c)

\* str.replace(pat, "")
RECURSIVE RemoveAll(_, _)
RemoveAll(s, pat) ==
    IF Len(s) < Len(pat) \/ Len(pat) = 0 THEN s
    ELSE IF Take(s, Len(pat)) = pat THEN RemoveAll(Drop(s, Len(pat)), pat)
    ELSE <<s[1]>> \o RemoveAll(Drop(s, 1), pat)

\* pat in s
Contains(s, pat) ==
    \E k \in 0..(Len(s) - Len(pat)) : SubSeq(s, k + 1, k + Len(pat)) = pat

\* s starts with p, letters compared without case (re.IGNORECASE)
HasPrefixCI(s, p) ==
    /\ Len(s) >= Len(p)
    /\ \A k \in 1..Len(p) : Lower(s[k]) = Lower(p[k])

RECURSIVE Flatten(_)
Flatten(ss) == IF ss = <<>> THEN <<>> ELSE Head(ss) \o Flatten(Tail(ss))

(***************************************************************************)
(* The literals of the source.                                             *)
(***************************************************************************)
FALLBACK == <<"c","h","o","r","e",":"," ","u","p","d","a","t","e">>
CHORE_PREFIX == <<"c","h","o","r","e",":"," ">>
\* the backtick, which a TLA+ string cannot hold, is the atom BQ
BQ == "BACKTICK"
FENCE == <<BQ, BQ, BQ>>
CC_TYPES ==
    { <<"f","e","a","t">>, <<"f","i","x">>, <<"d","o","c","s">>,
      <<"s","t","y","l","e">>, <<"r","e","f","a","c","t","o","r">>,
      <<"p","e","r","f">>, <<"t","e","s","t">>, <<"b","u","i","l","d">>,
      <<"c","i">>, <<"c","h","o","r","e">>, <<"r","e","v","e","r","t">> }

(***************************************************************************)
(* _strip_code_fences                                                      *)
(***************************************************************************)
\* One match of ^\s*BQBQBQ[\w-]*\s*$ (re.MULTILINE) starting at index p of t:
\* the index after the match, 0 when the pattern does not match at p.
FenceMatchEnd(t, p) ==
    LET a  == p + LeadCount(Drop(t, p - 1), WS)
        b  == a + 3
        c  == b + LeadCount(Drop(t, b - 1), WordChars \cup {"-"})
        w  == LeadCount(Drop(t, c - 1), WS)
        ok == {e \in c..(c + w) : e = Len(t) + 1 \/ t[e] = "\n"}
    IN  IF /\ (p = 1 \/ t[p - 1] = "\n")
           /\ a + 2 <= Len(t)
           /\ SubSeq(t, a, a + 2) = FENCE
           /\ ok # {}
        THEN CHOOSE e \in ok : \A f \in ok : f <= e
        ELSE 0

\* re.sub(r"^\s*BQBQBQ[\w-]*\s*$", "", t, flags=re.MULTILINE), scanning from p
RECURSIVE FenceSub(_, _)
FenceSub(t, p) ==
    IF p > Len(t) THEN <<>>
    ELSE IF FenceMatchEnd(t, p) > 0 THEN FenceSub(t, FenceMatchEnd(t, p))
    ELSE <<t[p]>> \o FenceSub(t, p + 1)

_strip_code_fences(text) ==
    IF text = <<>> THEN text
    ELSE Strip(RemoveAll(FenceSub(RemoveAll(text, <<"\r">>), 1), FENCE))

(***************************************************************************)
(* _sanitize_commit_message                                                *)
(***************************************************************************)
\* re.sub(r"^\s*here('s| is)\b.*?:\s*\n?", "", text, flags=re.IGNORECASE)
StripHere(text) ==
    LET a    == LeadCount(text, WS)
        t1   == Drop(text, a)
        alt  == IF HasPrefixCI(Drop(t1, 4), <<"'","s">>) THEN 2
                ELSE IF HasPrefixCI(Drop(t1, 4), <<" ","i","s">>) THEN 3
                ELSE 0
        t2   == Drop(t1, 4 + alt)
        col  == FirstIn(t2, {":", "\n"})
        t3   == Drop(t2, col)
    IN  IF /\ HasPrefixCI(t1, <<"h","e","r","e">>)
           /\ alt > 0
           /\ (t2 = <<>> \/ t2[1] \notin WordChars)
           /\ col > 0
           /\ t2[col] = ":"
        THEN Drop(t3, LeadCount(t3, WS))
        ELSE text

\* re.sub(r"^\s*(commit message|conventional commit)\s*:?-?\s*\n?", "", text,
\*        flags=re.IGNORECASE)
StripLabel(text) ==
    LET a    == LeadCount(text, WS)
        t1   == Drop(text, a)
        p1   == <<"c","o","m","m","i","t"," ","m","e","s","s","a","g","e">>
        p2   == <<"c","o","n","v","e","n","t","i","o","n","a","l"," ",
                  "c","o","m","m","i","t">>
        n    == IF HasPrefixCI(t1, p1) THEN Len(p1)
                ELSE IF HasPrefixCI(t1, p2) THEN Len(p2) ELSE 0
        t2   == Drop(t1, n)
        t3   == Drop(t2, LeadCount(t2, WS))
        t4   == IF t3 # <<>> /\ t3[1] = ":" THEN Drop(t3, 1) ELSE t3
        t5   == IF t4 # <<>> /\ t4[1] = "-" THEN Drop(t4, 1) ELSE t4
    IN  IF n > 0 THEN Drop(t5, LeadCount(t5, WS)) ELSE text

\* re.sub(r"^[-*]\s+", "", line)
StripBullet(line) ==
    IF Len(line) >= 2 /\ line[1] \in {"-", "*"} /\ line[2] \in WS
    THEN Drop(line, 1 + LeadCount(Drop(line, 1), WS))
    ELSE line

\* r matches  !?:\s+.+$  (the tail of both header grammars)
HeaderTail(r) ==
    LET r1 == IF r # <<>> /\ r[1] = "!" THEN Drop(r, 1) ELSE r
    IN  /\ r1 # <<>>
        /\ r1[1] = ":"
        /\ \E n \in 1..(Len(r1) - 1) :
              /\ \A k \in 2..(n + 1) : r1[k] \in WS
              /\ LET rest == Drop(r1, n + 1)
                     body == IF rest # <<>> /\ rest[Len(rest)] = "\n"
                             THEN Take(rest, Len(rest) - 1) ELSE rest
                 IN  \/ rest # <<>> /\ \A k \in 1..Len(rest) : rest[k] # "\n"
                     \/ body # <<>> /\ \A k \in 1..Len(body) : body[k] # "\n"

\* header_regex.match(s):
\*   ^(feat|fix|...|revert)(\([\w\-\/\.\s]+\))?!?:\s+.+$   re.IGNORECASE
header_regex(s) ==
    \E ty \in CC_TYPES :
        /\ HasPrefixCI(s, ty)
        /\ LET r == Drop(s, Len(ty))
               ScopeChars == WordChars \cup {"-", "/", "."} \cup WS
           IN  \/ HeaderTail(r)
               \/ /\ r # <<>>
                  /\ r[1] = "("
                  /\ \E k \in 3..Len(r) :
                        /\ r[k] = ")"
                        /\ \A j \in 2..(k - 1) : r[j] \in ScopeChars
                        /\ HeaderTail(Drop(r, k))

\* lines = [l.strip() for l in text.split("\n") if l.strip()]
NonBlankLines(text) ==
    LET stripped == MapSeq(SplitOn(text, "\n"), Strip)
    IN  SelectSeq(stripped, LAMBDA l : l # <<>>)

\* the first line of lines that is a header once its bullet is removed
FirstHeader(lines) ==
    LET hits == {k \in 1..Len(lines) : header_regex(StripBullet(lines[k]))}
    IN  IF hits = {} THEN 0 ELSE CHOOSE k \in hits : \A j \in hits : k <= j

\* lines 130-155 of _sanitize_commit_message: everything after the fences
SanitizeText(text0) ==
    LET text1 == StripLabel(StripHere(text0))
        text  == StripSet(StripSet(Strip(text1), {"\""}), {"'"})
        lines == NonBlankLines(text)
        fb0   == StripBullet(lines[1])
        fallback == Strip(SplitOn(fb0, "\n")[1])
    IN  IF lines = <<>> THEN FALLBACK
        ELSE IF FirstHeader(lines) > 0 THEN StripBullet(lines[FirstHeader(lines)])
        ELSE IF ~header_regex(fallback)
             THEN IF ":" \in Range(SplitOn(fallback, " ")[1])
                  THEN fallback
                  ELSE CHORE_PREFIX \o fallback
             ELSE fallback

\* a sanitizer that forgets to drop carriage returns and to split the lines
SanitizeKeepsBreaks(raw) ==
    IF raw = <<>> THEN FALLBACK
    ELSE LET text == Strip(raw)
         IN  IF text = <<>> THEN FALLBACK
             ELSE IF header_regex(text) \/ ":" \in Range(SplitOn(text, " ")[1])
                  THEN text
                  ELSE CHORE_PREFIX \o text

\* build/lib/aicommit/commit.py
_sanitize_commit_message(raw) ==
    IF raw = <<>> THEN FALLBACK
    ELSE SanitizeText(_strip_code_fences(Strip(raw)))

\* re.sub(r"^BQBQBQ[\w-]*\n|\nBQBQBQ$", "", text, flags=re.IGNORECASE)
FenceSubOld(text) ==
    LET tag  == LeadCount(Drop(text, 3), WordChars \cup {"-"})
        m1   == IF /\ Len(text) >= 3 + tag + 1
                   /\ Take(text, 3) = FENCE
                   /\ text[3 + tag + 1] = "\n"
                THEN 3 + tag + 1 ELSE 0
        rest == Drop(text, m1)
        n    == Len(rest)
        tail == <<"\n">> \o FENCE
    IN  IF n >= 4 /\ SubSeq(rest, n - 3, n) = tail
        THEN Take(rest, n - 4)
        ELSE IF n >= 5 /\ SubSeq(rest, n - 4, n - 1) = tail /\ rest[n] = "\n"
        THEN Take(rest, n - 5) \o <<"\n">>
        ELSE rest

\* aicommit/commit.py, the older copy of the sanitizer
_sanitize_commit_message_src(raw) ==
    IF raw = <<>> THEN FALLBACK
    ELSE SanitizeText(RemoveAll(FenceSubOld(Strip(raw)), <<"\r">>))

(***************************************************************************)
(* Release utilities: _CC_RE, _semver_bump, _analyze_commits, _decide_bump *)
(***************************************************************************)
\* str.splitlines(), for the line ends \n, \r\n and \r
RECURSIVE SplitLines(_)
SplitLines(s) ==
    IF s = <<>> THEN <<>>
    ELSE LET k == FirstIn(s, {"\n", "\r"})
             skip == IF k > 0 /\ s[k] = "\r" /\ k < Len(s) /\ s[k + 1] = "\n"
                     THEN k + 1 ELSE k
         IN  IF k = 0 THEN <<s>>
             ELSE <<Take(s, k - 1)>> \o SplitLines(Drop(s, skip))

\* int(x) for a string of decimal digits
RECURSIVE ParseInt(_)
ParseInt(s) ==
    IF s = <<>> THEN 0
    ELSE 10 * ParseInt(Take(s, Len(s) - 1))
         + ((CHOOSE k \in 1..10 : Digits[k] = s[Len(s)]) - 1)

\* the strings int() accepts, among those of the model
IsIntStr(s) == s # <<>> /\ \A k \in 1..Len(s) : s[k] \in Range(Digits)

\* f"{n}" for a natural number
RECURSIVE IntToStr(_)
IntToStr(n) ==
    IF n < 10 THEN <<Digits[n + 1]>>
    ELSE IntToStr(n \div 10) \o <<Digits[(n % 10) + 1]>>

\* a bump that forgets to zero the components below the one it raises
SemverBumpNoReset(version, bump) ==
    LET parts == SplitOn(version, ".")
        major == ParseInt(parts[1])
        minor == ParseInt(parts[2])
        patch == ParseInt(parts[3])
    IN  IF bump = "major"
        THEN IntToStr(major + 1) \o <<".">> \o IntToStr(minor) \o <<".">> \o IntToStr(patch)
        ELSE IF bump = "minor"
        THEN IntToStr(major) \o <<".">> \o IntToStr(minor + 1) \o <<".">> \o IntToStr(patch)
        ELSE IntToStr(major) \o <<".">> \o IntToStr(minor) \o <<".">> \o IntToStr(patch + 1)

\* what stands for the ValueError that the unpacking or int() raises
ValueError == <<"ValueError">>

\* _semver_bump; ValueError when the unpacking or int() raises
_semver_bump(version, bump) ==
    LET parts == SplitOn(version, ".")
        major == ParseInt(parts[1])
        minor == ParseInt(parts[2])
        patch == ParseInt(parts[3])
    IN  IF Len(parts) # 3 \/ \E k \in 1..Len(parts) : ~IsIntStr(parts[k])
        THEN ValueError
        ELSE IF bump = "major"
        THEN IntToStr(major + 1) \o <<".", "0", ".", "0">>
        ELSE IF bump = "minor"
        THEN IntToStr(major) \o <<".">> \o IntToStr(minor + 1) \o <<".", "0">>
        ELSE IntToStr(major) \o <<".">> \o IntToStr(minor) \o <<".">> \o IntToStr(patch + 1)

\* _CC_RE.match(subject):
\*   ^(?P<type>feat|...|revert)(\([^)]+\))?(?P<breaking>!)?:\s+(?P<subject>.+)$
\* as [matched, type, breaking]
CC_RE(subject) ==
    LET tys   == {ty \in CC_TYPES : HasPrefixCI(subject, ty)}
        ty    == CHOOSE t \in tys : TRUE
        r     == Drop(subject, Len(ty))
        close == FirstIn(r, {")"})
        r1    == IF r # <<>> /\ r[1] = "(" /\ close >= 3 THEN Drop(r, close) ELSE r
    IN  IF tys # {} /\ HeaderTail(r1)
        THEN [matched |-> TRUE, type |-> ty, breaking |-> r1[1] = "!"]
        ELSE [matched |-> FALSE, type |-> <<>>, breaking |-> FALSE]

BREAKING_CHANGE == <<"B","R","E","A","K","I","N","G"," ","C","H","A","N","G","E">>
T_feat == <<"f","e","a","t">>
T_fix == <<"f","i","x">>

\* the lines of a commit body that are not blank
BodyLines(body) == SelectSeq(SplitLines(body), LAMBDA l : Strip(l) # <<>>)

\* is_breaking of _analyze_commits, for a commit whose subject matched
IsBreaking(m, lines) ==
    \/ m.breaking
    \/ \E k \in 2..Len(lines) : Contains(UpperStr(lines[k]), BREAKING_CHANGE)

\* a pass that records a breaking commit in the breaking bucket alone
AnalyzeOneBreakingOnly(res, c) ==
    LET lines   == BodyLines(c.body)
        subject == IF lines # <<>> THEN lines[1] ELSE <<>>
        m       == CC_RE(subject)
        item    == [sha |-> c.sha, subject |-> subject]
    IN  IF m.matched /\ IsBreaking(m, lines)
        THEN [res EXCEPT !.breaking = Append(@, item)]
        ELSE IF m.matched /\ m.type = T_feat THEN [res EXCEPT !.feat = Append(@, item)]
        ELSE IF m.matched /\ m.type = T_fix THEN [res EXCEPT !.fix = Append(@, item)]
        ELSE [res EXCEPT !.other = Append(@, item)]

\* one pass of the loop of _analyze_commits: res after commit c
AnalyzeOne(res, c) ==
    LET body    == c.body
        lines   == BodyLines(body)
        subject == IF lines # <<>> THEN lines[1] ELSE <<>>
        m       == CC_RE(subject)
        item    == [sha |-> c.sha, subject |-> subject]
        r1      == IF IsBreaking(m, lines)
                   THEN [res EXCEPT !.breaking = Append(@, item)] ELSE res
    IN  IF m.matched
        THEN IF m.type = T_feat THEN [r1 EXCEPT !.feat = Append(@, item)]
             ELSE IF m.type = T_fix THEN [r1 EXCEPT !.fix = Append(@, item)]
             ELSE [r1 EXCEPT !.other = Append(@, item)]
        ELSE [res EXCEPT !.other = Append(@,
                 [sha |-> c.sha,
                  subject |-> IF body # <<>>
                              THEN (IF subject # <<>> THEN subject
                                    ELSE SplitLines(body)[1])
                              ELSE c.sha])]

RECURSIVE AnalyzeFrom(_, _)
AnalyzeFrom(res, commits) ==
    IF commits = <<>> THEN res
    ELSE AnalyzeFrom(AnalyzeOne(res, Head(commits)), Tail(commits))

_analyze_commits(commits) ==
    AnalyzeFrom([breaking |-> <<>>, feat |-> <<>>, fix |-> <<>>, other |-> <<>>],
                commits)

\* a decision that overlooks the breaking bucket
DecideBumpNoBreaking(analysis) ==
    IF analysis.feat # <<>> THEN "minor" ELSE "patch"

_decide_bump(analysis) ==
    IF analysis.breaking # <<>> THEN "major"
    ELSE IF analysis.feat # <<>> THEN "minor"
    ELSE "patch"

(***************************************************************************)
(* The state.                                                              *)
(***************************************************************************)
VARIABLES
    \* commit_changes: its argument, its locals and its position
    files, idx, pc, status_map, details_map, processed, cur, diff, commit_message,
    \* the repository: the index, the working tree, the history, the status output
    staged, worktree, commits, status_out, staged0,
    \* the commands issued and the calls of the message generator, in order
    git_cmds, diff_cmds, gen_calls,
    \* what each iteration did: passed over or classified, and the diff it got
    visits, diff_log,
    \* _sanitize_commit_message called on its own
    raw, sanitized, san_pc,
    \* run_release: the state it starts from, and one run per value of dry_run
    rel_in, rel,
    \* _analyze_commits and the bump decision of run_release on their own
    an_commits, an_override, analysis, bump, an_pc,
    \* _semver_bump on its own
    sv_triple, sv_version, sv_bump, sv_result, sv_pc

ccVars == <<files, idx, pc, status_map, details_map, processed, cur, diff,
            commit_message, staged, worktree, commits, status_out, staged0,
            git_cmds, diff_cmds, gen_calls, visits, diff_log>>
sanVars == <<raw, sanitized, san_pc>>
relVars == <<rel_in, rel>>
anVars == <<an_commits, an_override, analysis, bump, an_pc>>
svVars == <<sv_triple, sv_version, sv_bump, sv_result, sv_pc>>
vars == <<ccVars, sanVars, relVars, anVars, svVars>>

(***************************************************************************)
(* Bounds and inputs.                                                      *)
(***************************************************************************)
MaxFiles == 2
MaxPieces == 3
MaxCommits == 2
MaxRelCommits == 1
MaxComponent == 10

Paths == {"a.txt", "b.txt", "c.txt"}
PathOrder == <<"a.txt", "b.txt", "c.txt">>
None == "None"

SeqsUpTo(S, n) == UNION {[1..k -> S] : k \in 0..n}
\* the lists commit_changes is given: changed paths, each named once
FileLists ==
    {fl \in SeqsUpTo(Paths, MaxFiles) :
        \A j, k \in 1..Len(fl) : j # k => fl[j] # fl[k]}

\* what the language model answers with
RAW_HEADER == <<"f","i","x",":"," ","a">>
RawSamples == {RAW_HEADER}

(***************************************************************************)
(* The repository, as git status --porcelain reports it.                   *)
(***************************************************************************)
\* the change of one path: none, unstaged or staged modification, untracked,
\* deleted in the working tree, rename staged or seen in the working tree
Kinds == {"clean", "_M", "M_", "??", "_D", "R_", "_R"}
RenameKinds == {"R_", "_R"}

KindX(k) == CASE k = "M_" -> "M" [] k = "R_" -> "R" [] k = "??" -> "?" [] OTHER -> " "
KindY(k) == CASE k = "_M" -> "M" [] k = "_D" -> "D" [] k = "_R" -> "R"
              [] k = "??" -> "?" [] OTHER -> " "

Worlds ==
    {w \in [Paths -> [kind : Kinds, orig : Paths \cup {None}]] :
        /\ \A p \in Paths : (w[p].kind \in RenameKinds) <=> (w[p].orig # None)
        /\ \A p \in Paths : w[p].orig # p
        /\ \A p \in Paths : w[p].kind = "R_" => w[w[p].orig].kind \in {"clean", "??"}
        /\ \A p \in Paths : w[p].kind = "_R" => w[w[p].orig].kind = "clean"
        /\ \A p, q \in Paths : (p # q /\ w[p].orig # None) => w[p].orig # w[q].orig}

WorldStaged(w) ==
    {p \in Paths : w[p].kind \in {"M_", "R_"}}
    \cup {w[p].orig : p \in {q \in Paths : w[q].kind = "R_"}}

WorldWorktree(w) ==
    [p \in Paths |->
        IF w[p].kind \in {"_M", "_R"} THEN "mod"
        ELSE IF w[p].kind = "_D" THEN "del"
        ELSE IF w[p].kind = "??" THEN "untracked"
        ELSE IF \E q \in Paths : w[q].kind = "_R" /\ w[q].orig = p THEN "del"
        ELSE "clean"]

\* the entries (X, Y, path, orig_path) _git_status_porcelain parses
WorldStatus(w) ==
    LET listed == SelectSeq(PathOrder, LAMBDA p : w[p].kind # "clean")
    IN  [k \in 1..Len(listed) |->
            [X |-> KindX(w[listed[k]].kind), Y |-> KindY(w[listed[k]].kind),
             path |-> listed[k], orig |-> w[listed[k]].orig]]

\* unique of get_diffed_files: the first occurrences, in order
RECURSIVE Dedup(_, _)
Dedup(s, seen) ==
    IF s = <<>> THEN <<>>
    ELSE IF Head(s) \in seen THEN Dedup(Tail(s), seen)
    ELSE <<Head(s)>> \o Dedup(Tail(s), seen \cup {Head(s)})

\* get_diffed_files, on the entries the status parser returns
get_diffed_files(entries) ==
    LET changed == SelectSeq(entries,
                       LAMBDA e : e.X # " " \/ e.Y # " " \/ (e.X = "?" /\ e.Y = "?"))
    IN  Dedup([k \in 1..Len(changed) |-> changed[k].path], {})

(***************************************************************************)
(* git, as the commands of commit_changes use it.                          *)
(***************************************************************************)
\* git add [-A|-f] -- ps, and git rm -- ps: the index after the command
AddedIndex(ps) == staged \cup {p \in ps : worktree[p] # "clean"}
AddedWorktree(ps) == [p \in Paths |-> IF p \in ps THEN "clean" ELSE worktree[p]]

\* git diff --cached -- ps and git diff -- ps: the paths the text has hunks for
\* (the text is blank exactly when there are none)
DiffCached(ps) == {p \in ps : p \in staged}
DiffWorktree(ps) == {p \in ps : worktree[p] \in {"mod", "del"}}

\* git commit -m msg -- ps records the changes of the paths ps and of no other
CommitContent(ps) == {p \in ps : p \in staged \/ worktree[p] \in {"mod", "del"}}
CanCommit(ps) ==
    /\ CommitContent(ps) # {}
    /\ \A p \in ps : worktree[p] = "untracked" => p \in staged

SeqSet(s) == Range(s)

(***************************************************************************)
(* generate_commit_message                                                 *)
(***************************************************************************)
\* the ways the call of the language model raises: the transport fails, the
\* API answers with an error, the response has no choices
LLMFailures == {"transport_error", "api_error", "no_choices"}
\* what one call can end in; a response whose content is None reads as ""
LLMOutcomes ==
    {[kind |-> k, raw |-> <<>>] : k \in LLMFailures \cup {"null_content"}}
    \cup {[kind |-> "text", raw |-> r] : r \in RawSamples}

\* a generator whose except clause is missing: the failure leaves the function
GenerateNoCatch(outcome) ==
    IF outcome.kind \in LLMFailures THEN "Exception"
    ELSE _sanitize_commit_message(outcome.raw)

\* the value generate_commit_message returns ("Exception" if it raised)
generate_commit_message(outcome) ==
    IF outcome.kind \in LLMFailures THEN FALLBACK
    ELSE _sanitize_commit_message(outcome.raw)

(***************************************************************************)
(* commit_changes                                                          *)
(***************************************************************************)
file == files[idx]
DefaultDetails == [X |-> " ", Y |-> " ", orig |-> None]
\* a staging or commit command as issued, with whether it exited with zero
Cmd(c, ps, ok) == [cmd |-> c, paths |-> ps, ok |-> ok, iter |-> idx]
\* a diff command as issued (its exit status only decides the text returned)
DiffCmd(c, ps) == [cmd |-> c, paths |-> ps, iter |-> idx]

\* the next element of the for loop
Continue == /\ idx' = idx + 1
            /\ pc' = "loop"

\* lines 374-378: the status is read once and the two maps are built
BuildMaps ==
    /\ pc = "start"
    /\ \E ok \in BOOLEAN :
         LET entries == IF ok THEN status_out ELSE <<>>
             listed  == {entries[k].path : k \in 1..Len(entries)}
             of(p)   == entries[CHOOSE k \in 1..Len(entries) :
                           /\ entries[k].path = p
                           /\ \A j \in (k + 1)..Len(entries) : entries[j].path # p]
         IN  /\ status_map' = [p \in listed |-> <<of(p).X, of(p).Y>>]
             /\ details_map' = [p \in listed |->
                                  [X |-> of(p).X, Y |-> of(p).Y, orig |-> of(p).orig]]
             /\ git_cmds' = Append(git_cmds, [cmd |-> "status", paths |-> <<>>,
                                              ok |-> ok, iter |-> 0])
    /\ pc' = "loop"
    /\ UNCHANGED <<files, idx, processed, cur, diff, commit_message, staged,
                   worktree, commits, status_out, staged0, diff_cmds, gen_calls,
                   visits, diff_log>>

\* lines 382-383: a path already marked processed is passed over
SkipProcessed ==
    /\ pc = "loop"
    /\ idx <= Len(files)
    /\ file \in processed
    /\ Continue
    /\ visits' = Append(visits, "skipped")
    /\ UNCHANGED <<files, status_map, details_map, processed, cur, diff,
                   commit_message, staged, worktree, commits, status_out, staged0,
                   git_cmds, diff_cmds, gen_calls,
                   diff_log>>

\* line 384 and the test of line 387
Classify ==
    /\ pc = "loop"
    /\ idx <= Len(files)
    /\ file \notin processed
    /\ cur' = IF file \in DOMAIN details_map THEN details_map[file]
              ELSE DefaultDetails
    /\ visits' = Append(visits, "classified")
    /\ pc' = IF cur'.X = " " THEN "stage" ELSE "diff"
    /\ UNCHANGED <<files, idx, status_map, details_map, processed, diff,
                   commit_message, staged, worktree, commits, status_out, staged0,
                   git_cmds, diff_cmds, gen_calls,
                   diff_log>>

\* the staging command of lines 389-403 and the paths it names
StageCmd == IF cur.orig # None THEN "add -A"
            ELSE IF cur.Y = "D" THEN "rm" ELSE "add -f"
StagePaths == IF cur.orig # None THEN <<cur.orig, file>> ELSE <<file>>

\* a staging step that stages a rename pair without marking it processed
StageOkNoMark ==
    /\ pc = "stage"
    /\ staged' = AddedIndex(SeqSet(StagePaths))
    /\ worktree' = AddedWorktree(SeqSet(StagePaths))
    /\ git_cmds' = Append(git_cmds, Cmd(StageCmd, StagePaths, TRUE))
    /\ processed' = processed
    /\ LET X1 == IF cur.orig # None THEN "R" ELSE cur.X
           X2 == IF X1 # " " THEN X1 ELSE "M"
       IN  /\ cur' = [cur EXCEPT !.X = X2, !.Y = " "]
           /\ status_map' = [p \in DOMAIN status_map \cup {file} |->
                                IF p = file THEN <<X2, " ">> ELSE status_map[p]]
    /\ pc' = "diff"
    /\ UNCHANGED <<files, idx, details_map, diff, commit_message, commits,
                   status_out, staged0, diff_cmds, gen_calls,
                   visits, diff_log>>

\* lines 388-405: the staging command succeeds
StageOk ==
    /\ pc = "stage"
    /\ staged' = AddedIndex(SeqSet(StagePaths))
    /\ worktree' = AddedWorktree(SeqSet(StagePaths))
    /\ git_cmds' = Append(git_cmds, Cmd(StageCmd, StagePaths, TRUE))
    /\ processed' = IF cur.orig # None THEN processed \cup {cur.orig, file}
                    ELSE processed
    /\ LET X1 == IF cur.orig # None THEN "R" ELSE cur.X
           X2 == IF X1 # " " THEN X1 ELSE "M"
       IN  /\ cur' = [cur EXCEPT !.X = X2, !.Y = " "]
           /\ status_map' = [p \in DOMAIN status_map \cup {file} |->
                                IF p = file THEN <<X2, " ">> ELSE status_map[p]]
    /\ pc' = "diff"
    /\ UNCHANGED <<files, idx, details_map, diff, commit_message, commits,
                   status_out, staged0, diff_cmds, gen_calls,
                   visits, diff_log>>

\* a staging failure that is not caught: the exception leaves commit_changes
StageFailAborts ==
    /\ pc = "stage"
    /\ git_cmds' = Append(git_cmds, Cmd(StageCmd, StagePaths, FALSE))
    /\ pc' = "raised"
    /\ UNCHANGED <<files, idx, status_map, details_map, processed, cur, diff,
                   commit_message, staged, worktree, commits, status_out, staged0,
                   diff_cmds, gen_calls,
                   visits, diff_log>>

\* a staging failure that is printed without the continue: the iteration
\* goes on to the diff
StageFailGoesOn ==
    /\ pc = "stage"
    /\ git_cmds' = Append(git_cmds, Cmd(StageCmd, StagePaths, FALSE))
    /\ pc' = "diff"
    /\ UNCHANGED <<files, idx, status_map, details_map, processed, cur, diff,
                   commit_message, staged, worktree, commits, status_out, staged0,
                   diff_cmds, gen_calls,
                   visits, diff_log>>

\* lines 406-408: the staging command fails, the error is printed, continue
StageFail ==
    /\ pc = "stage"
    /\ git_cmds' = Append(git_cmds, Cmd(StageCmd, StagePaths, FALSE))
    /\ Continue
    /\ UNCHANGED <<files, status_map, details_map, processed, cur, diff,
                   commit_message, staged, worktree, commits, status_out, staged0,
                   diff_cmds, gen_calls,
                   visits, diff_log>>

\* get_file_diff(file_path, status_map): <<the diff, the commands it ran>>,
\* cf and wf telling whether git diff --cached and git diff exit non-zero
get_file_diff(file_path, smap, cf, wf) ==
    LET isStaged == file_path \in DOMAIN smap /\ smap[file_path][1] # " "
        cached   == DiffCached({file_path})
        tree     == DiffWorktree({file_path})
        c1       == DiffCmd("diff --cached", <<file_path>>)
        c2       == DiffCmd("diff", <<file_path>>)
    IN  IF isStaged /\ ~cf /\ cached # {} THEN <<cached, <<c1>>>>
        ELSE <<IF wf THEN {} ELSE tree, (IF isStaged THEN <<c1>> ELSE <<>>) \o <<c2>>>>

\* lines 411-418: the diff of a rename pair
RenameDiff(old, new, cf, wf) ==
    LET cached == IF cf THEN {} ELSE DiffCached({old, new})
        tree   == IF wf THEN {} ELSE DiffWorktree({old, new})
        c1     == DiffCmd("diff --cached", <<old, new>>)
        c2     == DiffCmd("diff", <<old, new>>)
    IN  IF cached # {} THEN <<cached, <<c1>>>> ELSE <<tree, <<c1, c2>>>>

\* the diff step, for the outcomes cf and wf of the two diff commands
DiffResult(cf, wf) ==
    IF cur.orig # None THEN RenameDiff(cur.orig, file, cf, wf)
    ELSE get_file_diff(file, status_map, cf, wf)

\* a diff step that goes on to the message whatever the diff is
DiffStepNoSkip ==
    /\ pc = "diff"
    /\ \E cf, wf \in BOOLEAN :
         LET r == DiffResult(cf, wf)
         IN  /\ r[2][Len(r[2])].cmd = "diff --cached" => ~wf
             /\ r[2][1].cmd = "diff" => ~cf
             /\ diff' = r[1]
             /\ diff_log' = Append(diff_log, [iter |-> idx, diff |-> r[1]])
             /\ diff_cmds' = diff_cmds \o r[2]
             /\ pc' = "message"
             /\ idx' = idx
    /\ UNCHANGED <<files, status_map, details_map, processed, cur, commit_message,
                   staged, worktree, commits, status_out, staged0, git_cmds,
                   gen_calls,
                   visits>>

\* lines 410-423: the diff is taken; a blank diff ends the iteration
DiffStep ==
    /\ pc = "diff"
    /\ \E cf, wf \in BOOLEAN :
         LET r == DiffResult(cf, wf)
         IN  /\ r[2][Len(r[2])].cmd = "diff --cached" => ~wf
             /\ r[2][1].cmd = "diff" => ~cf
             /\ diff' = r[1]
             /\ diff_log' = Append(diff_log, [iter |-> idx, diff |-> r[1]])
             /\ diff_cmds' = diff_cmds \o r[2]
             /\ IF r[1] = {} THEN Continue ELSE pc' = "message" /\ idx' = idx
    /\ UNCHANGED <<files, status_map, details_map, processed, cur, commit_message,
                   staged, worktree, commits, status_out, staged0, git_cmds,
                   gen_calls,
                   visits>>

\* a message step that calls the generator again after a first call failed
MessageStepTwice ==
    /\ pc = "message"
    /\ \E outcome \in LLMOutcomes :
         LET msg == generate_commit_message(outcome)
         IN  /\ gen_calls' = gen_calls \o
                    << [iter |-> idx, failed |-> TRUE, diff |-> diff],
                       [iter |-> idx, failed |-> outcome.kind \in LLMFailures,
                        diff |-> diff] >>
             /\ IF msg = "Exception"
                THEN pc' = "raised" /\ UNCHANGED commit_message
                ELSE pc' = "commit" /\ commit_message' = msg
    /\ UNCHANGED <<files, idx, status_map, details_map, processed, cur, diff,
                   staged, worktree, commits, status_out, staged0, git_cmds,
                   diff_cmds,
                   visits, diff_log>>

\* line 425: one call of the message generator
MessageStep ==
    /\ pc = "message"
    /\ \E outcome \in LLMOutcomes :
         LET msg == generate_commit_message(outcome)
         IN  /\ gen_calls' = Append(gen_calls,
                    [iter |-> idx, failed |-> outcome.kind \in LLMFailures,
                     diff |-> diff])
             /\ IF msg = "Exception"
                THEN pc' = "raised" /\ UNCHANGED commit_message
                ELSE pc' = "commit" /\ commit_message' = msg
    /\ UNCHANGED <<files, idx, status_map, details_map, processed, cur, diff,
                   staged, worktree, commits, status_out, staged0, git_cmds,
                   diff_cmds,
                   visits, diff_log>>

\* a commit command without its pathspec: everything staged goes in
CommitPathsAll == <<>>

\* the pathspec of the commit command of lines 429 and 434
CommitPaths == IF cur.orig # None THEN <<cur.orig, file>> ELSE <<file>>

\* the paths a commit records: those of its pathspec, all staged ones without
Recorded(ps) == IF ps = <<>> THEN staged ELSE CommitContent(SeqSet(ps))

\* lines 426-435: the commit command succeeds
CommitOk ==
    /\ pc = "commit"
    /\ IF CommitPaths = <<>> THEN staged # {} ELSE CanCommit(SeqSet(CommitPaths))
    /\ commits' = Append(commits, [message |-> commit_message,
                                   pathspec |-> CommitPaths,
                                   paths |-> Recorded(CommitPaths),
                                   iter |-> idx])
    /\ staged' = staged \ Recorded(CommitPaths)
    /\ worktree' = [p \in Paths |->
                      IF p \in Recorded(CommitPaths) THEN "clean" ELSE worktree[p]]
    /\ git_cmds' = Append(git_cmds, Cmd("commit", CommitPaths, TRUE))
    /\ processed' = IF cur.orig # None THEN processed \cup {file} ELSE processed
    /\ Continue
    /\ UNCHANGED <<files, status_map, details_map, cur, diff, commit_message,
                   status_out, staged0, diff_cmds, gen_calls,
                   visits, diff_log>>

\* lines 436-437: the commit command fails, the error is printed
CommitFail ==
    /\ pc = "commit"
    /\ git_cmds' = Append(git_cmds, Cmd("commit", CommitPaths, FALSE))
    /\ Continue
    /\ UNCHANGED <<files, status_map, details_map, processed, cur, diff,
                   commit_message, staged, worktree, commits, status_out, staged0,
                   diff_cmds, gen_calls,
                   visits, diff_log>>

\* the for loop of line 381 is exhausted
Finish ==
    /\ pc = "loop"
    /\ idx > Len(files)
    /\ pc' = "done"
    /\ UNCHANGED <<files, idx, status_map, details_map, processed, cur, diff,
                   commit_message, staged, worktree, commits, status_out, staged0,
                   git_cmds, diff_cmds, gen_calls,
                   visits, diff_log>>

SanIdle == raw = <<>> /\ sanitized = <<>> /\ san_pc = "off"
RelIdle == rel_in = <<>> /\ rel = <<>>
AnIdle == /\ an_commits = <<>> /\ an_override = None /\ analysis = <<>>
          /\ bump = None /\ an_pc = "off"
SvIdle == /\ sv_triple = <<>> /\ sv_version = <<>> /\ sv_bump = None
          /\ sv_result = <<>> /\ sv_pc = "off"

\* commit_changes(files) is called on a repository
Init ==
    /\ \E w \in Worlds :
         /\ staged = WorldStaged(w)
         /\ worktree = WorldWorktree(w)
         /\ status_out = WorldStatus(w)
    /\ staged0 = staged
    /\ files \in FileLists
    /\ idx = 1
    /\ pc = "start"
    /\ status_map = <<>>
    /\ details_map = <<>>
    /\ processed = {}
    /\ cur = DefaultDetails
    /\ diff = {}
    /\ commit_message = <<>>
    /\ commits = <<>>
    /\ git_cmds = <<>>
    /\ diff_cmds = <<>>
    /\ gen_calls = <<>>
    /\ visits = <<>>
    /\ diff_log = <<>>
    /\ SanIdle /\ RelIdle /\ AnIdle /\ SvIdle

Next ==
    \/ BuildMaps /\ UNCHANGED <<sanVars, relVars, anVars, svVars>>
    \/ SkipProcessed /\ UNCHANGED <<sanVars, relVars, anVars, svVars>>
    \/ Classify /\ UNCHANGED <<sanVars, relVars, anVars, svVars>>
    \/ StageOk /\ UNCHANGED <<sanVars, relVars, anVars, svVars>>
    \/ StageFail /\ UNCHANGED <<sanVars, relVars, anVars, svVars>>
    \/ DiffStep /\ UNCHANGED <<sanVars, relVars, anVars, svVars>>
    \/ MessageStep /\ UNCHANGED <<sanVars, relVars, anVars, svVars>>
    \/ CommitOk /\ UNCHANGED <<sanVars, relVars, anVars, svVars>>
    \/ CommitFail /\ UNCHANGED <<sanVars, relVars, anVars, svVars>>
    \/ Finish /\ UNCHANGED <<sanVars, relVars, anVars, svVars>>

Spec == Init /\ [][Next]_vars

(***************************************************************************)
(* Claims about commit_changes.                                            *)
(***************************************************************************)
Iters == 1..Len(files)
CmdsOf(log, k) == {j \in 1..Len(log) : log[j].iter = k}
CommitCmdsOf(k) == {j \in CmdsOf(git_cmds, k) : git_cmds[j].cmd = "commit"}
StageCmdsOf(k) == {j \in CmdsOf(git_cmds, k) :
                     git_cmds[j].cmd \in {"add -A", "rm", "add -f"}}
\* iteration k has ended
Over(k) == idx > k \/ pc \in {"done", "raised"}
\* what the maps hold for the path of iteration k
DetailsOf(k) == IF files[k] \in DOMAIN details_map THEN details_map[files[k]]
                ELSE DefaultDetails

\* C1: an iteration whose diff is blank calls the message generator for no
\* path and issues no commit command.
C1_BlankDiffNeverCommitted ==
    \A j \in 1..Len(diff_log) :
        diff_log[j].diff = {} =>
            /\ CmdsOf(gen_calls, diff_log[j].iter) = {}
            /\ CommitCmdsOf(diff_log[j].iter) = {}

\* a run is over in which one path had a blank diff and another was committed
C1_Witness ==
    /\ pc = "done"
    /\ \E j \in 1..Len(diff_log) : diff_log[j].diff = {}
    /\ commits # <<>>

\* the paths being processed: those of the list, and the old side of a rename
Handled ==
    SeqSet(files) \cup
    {DetailsOf(k).orig : k \in {j \in Iters : DetailsOf(j).orig # None}}

\* C2: every commit command names exactly the path of its iteration (old and
\* new for a rename), and a path that was staged before the run and is not
\* being processed stays staged and is in no commit of the run.
C2_CommitOnlyItsPath ==
    /\ \A j \in 1..Len(git_cmds) :
          git_cmds[j].cmd = "commit" =>
              git_cmds[j].paths =
                  (IF DetailsOf(git_cmds[j].iter).orig # None
                   THEN <<DetailsOf(git_cmds[j].iter).orig, files[git_cmds[j].iter]>>
                   ELSE <<files[git_cmds[j].iter]>>)
    /\ \A p \in staged0 \ Handled :
          /\ p \in staged
          /\ \A j \in 1..Len(commits) : p \notin commits[j].paths

\* a run is over that committed a path while another, unrelated path was staged
C2_Witness ==
    /\ pc = "done"
    /\ commits # <<>>
    /\ staged0 \ Handled # {}

\* C3: no failure of a staging or commit command ends the run: the run never
\* leaves by an exception, and once it is over every path of the list was
\* visited, each path not marked processed was classified, staged if its
\* staged status was blank, diffed unless the staging failed, and committed
\* if its diff was not blank.
C3_FailureNeverAborts ==
    /\ pc # "raised"
    /\ pc = "done" =>
          /\ Len(visits) = Len(files)
          /\ \A k \in Iters :
                visits[k] = "classified" =>
                    /\ DetailsOf(k).X = " " => StageCmdsOf(k) # {}
                    /\ (\A j \in StageCmdsOf(k) : git_cmds[j].ok) =>
                          \E j \in 1..Len(diff_log) : diff_log[j].iter = k
                    /\ \A j \in 1..Len(diff_log) :
                          (diff_log[j].iter = k /\ diff_log[j].diff # {}) =>
                              CommitCmdsOf(k) # {}

\* a run is over in which a staging or commit command failed on one path and
\* a later path was staged, diffed and committed
C3_Witness ==
    /\ pc = "done"
    /\ \E a, b, c \in 1..Len(git_cmds) :
          /\ a < b /\ b < c
          /\ ~git_cmds[a].ok
          /\ git_cmds[a].cmd \in {"add -A", "rm", "add -f", "commit"}
          /\ git_cmds[b].cmd \in {"add -A", "rm", "add -f"} /\ git_cmds[b].ok
          /\ git_cmds[c].cmd = "commit" /\ git_cmds[c].ok
          /\ git_cmds[a].iter < git_cmds[b].iter
          /\ git_cmds[b].iter = git_cmds[c].iter

\* C9: when the call of the language model fails, generate_commit_message
\* returns "chore: update" and raises nothing: commit_changes goes on to the
\* commit command of that path with that message, and the generator is not
\* called a second time for the path.
C9_GeneratorFailureFallsBack ==
    /\ pc # "raised"
    /\ \A j \in 1..Len(gen_calls) :
          gen_calls[j].failed =>
              /\ Cardinality(CmdsOf(gen_calls, gen_calls[j].iter)) = 1
              /\ (pc = "commit" /\ idx = gen_calls[j].iter) => commit_message = FALLBACK
              /\ Over(gen_calls[j].iter) => CommitCmdsOf(gen_calls[j].iter) # {}
              /\ \A c \in 1..Len(commits) :
                    commits[c].iter = gen_calls[j].iter => commits[c].message = FALLBACK

\* a run is over in which the model call failed for a path and the path was
\* committed with the fallback message
C9_Witness ==
    /\ pc = "done"
    /\ \E j \in 1..Len(gen_calls), c \in 1..Len(commits) :
          /\ gen_calls[j].failed
          /\ commits[c].iter = gen_calls[j].iter
          /\ commits[c].message = FALLBACK

\* C10 (as claimed): a path whose diff is acquired and that is not staged, not
\* a rename and not deleted in the working tree (so also an untracked path,
\* reported as ??) was force-staged by its iteration before that.
C10_UnstagedPathForceStaged ==
    \A j \in 1..Len(diff_log) :
        LET k == diff_log[j].iter
            d == DetailsOf(k)
        IN  (d.orig = None /\ d.Y # "D" /\ d.X \in {" ", "?"}) =>
                \E c \in StageCmdsOf(k) :
                    /\ git_cmds[c].cmd = "add -f"
                    /\ git_cmds[c].paths = <<files[k]>>
                    /\ git_cmds[c].ok

(***************************************************************************)
(* _sanitize_commit_message on its own, on raw strings put together from   *)
(* the pieces model output is made of.                                     *)
(***************************************************************************)
Pieces ==
    { <<"f","e","a","t">>, <<":"," ">>, <<"x">>, <<"N","o","t","e",":">>,
      <<"\n">>, FENCE, <<"-"," ">>, <<"!">>, <<"(","x",")">>, <<"\"">>,
      <<"h","e","r","e","'","s">>, <<"\r">>, <<"F","I","X">>,
      <<"c","o","m","m","i","t"," ","m","e","s","s","a","g","e",":">> }

RawInputs == {Flatten(ps) : ps \in SeqsUpTo(Pieces, MaxPieces)}

\* commit_changes is not running
CcIdle ==
    /\ files = <<>> /\ idx = 1 /\ pc = "off"
    /\ status_map = <<>> /\ details_map = <<>> /\ processed = {}
    /\ cur = DefaultDetails /\ diff = {} /\ commit_message = <<>>
    /\ staged = {} /\ worktree = [p \in Paths |-> "clean"] /\ commits = <<>>
    /\ status_out = <<>> /\ staged0 = {}
    /\ git_cmds = <<>> /\ diff_cmds = <<>> /\ gen_calls = <<>>
    /\ visits = <<>> /\ diff_log = <<>>

InitSanitize ==
    /\ raw \in RawInputs
    /\ sanitized = <<>>
    /\ san_pc = "call"
    /\ CcIdle /\ RelIdle /\ AnIdle /\ SvIdle

\* _sanitize_commit_message(raw) of build/lib/aicommit/commit.py returns
SanitizeCall ==
    /\ san_pc = "call"
    /\ sanitized' = _sanitize_commit_message(raw)
    /\ san_pc' = "returned"
    /\ UNCHANGED raw

\* _sanitize_commit_message(raw) of aicommit/commit.py returns
SanitizeCallSrc ==
    /\ san_pc = "call"
    /\ sanitized' = _sanitize_commit_message_src(raw)
    /\ san_pc' = "returned_src"
    /\ UNCHANGED raw

NextSanitize ==
    \/ SanitizeCall /\ UNCHANGED <<ccVars, relVars, anVars, svVars>>
    \/ SanitizeCallSrc /\ UNCHANGED <<ccVars, relVars, anVars, svVars>>

SpecSanitize == InitSanitize /\ [][NextSanitize]_vars

Returned == san_pc \in {"returned", "returned_src"}
NoLineBreak(s) == \A k \in 1..Len(s) : s[k] \notin {"\n", "\r"}

\* C8 (as claimed): the sanitizer returns a non-empty string without a line
\* break that matches the header grammar or is "chore: update".
C8_HeaderOrFallback ==
    Returned =>
        /\ sanitized # <<>>
        /\ NoLineBreak(sanitized)
        /\ (header_regex(sanitized) \/ sanitized = FALLBACK)

\* C8 (amended): the sanitizer returns a non-empty string without a line
\* break that matches the header grammar, or is "chore: update", or is a
\* line whose first space-delimited word holds a colon, returned as it is.
C8_HeaderFallbackOrColonWord ==
    Returned =>
        /\ sanitized # <<>>
        /\ NoLineBreak(sanitized)
        /\ \/ header_regex(sanitized)
           \/ sanitized = FALLBACK
           \/ ":" \in Range(SplitOn(sanitized, " ")[1])

\* fenced text with prose in it came back as a line that is no header
C8_Witness ==
    /\ Returned
    /\ Contains(raw, FENCE)
    /\ ~header_regex(sanitized)
    /\ sanitized # FALLBACK

(***************************************************************************)
(* _semver_bump on its own, on the version strings of all triples up to    *)
(* MaxComponent.                                                           *)
(***************************************************************************)
BumpKinds == {"major", "minor", "patch"}

\* f"{major}.{minor}.{patch}"
FormatVersion(t) ==
    IntToStr(t[1]) \o <<".">> \o IntToStr(t[2]) \o <<".">> \o IntToStr(t[3])

InitSemver ==
    /\ sv_triple \in (0..MaxComponent) \X (0..MaxComponent) \X (0..MaxComponent)
    /\ sv_version = FormatVersion(sv_triple)
    /\ sv_bump \in BumpKinds
    /\ sv_result = <<>>
    /\ sv_pc = "call"
    /\ CcIdle /\ SanIdle /\ RelIdle /\ AnIdle

\* _semver_bump(version, bump) returns
SemverCall ==
    /\ sv_pc = "call"
    /\ sv_result' = _semver_bump(sv_version, sv_bump)
    /\ sv_pc' = "returned"
    /\ UNCHANGED <<sv_triple, sv_version, sv_bump>>

NextSemver ==
    SemverCall /\ UNCHANGED <<ccVars, sanVars, relVars, anVars>>

SpecSemver == InitSemver /\ [][NextSemver]_vars

\* the components a version string reads as
ReadTriple(v) ==
    LET parts == SplitOn(v, ".")
    IN  <<ParseInt(parts[1]), ParseInt(parts[2]), ParseInt(parts[3])>>
WellFormedVersion(v) ==
    LET parts == SplitOn(v, ".")
    IN  Len(parts) = 3 /\ \A k \in 1..3 : IsIntStr(parts[k])
\* the component a bump kind raises
BumpIndex(b) == CASE b = "major" -> 1 [] b = "minor" -> 2 [] OTHER -> 3

\* C7: _semver_bump raises exactly the component of the bump kind by one,
\* zeroes every component below it and keeps every component above it.
C7_BumpOneZeroBelow ==
    sv_pc = "returned" =>
        /\ WellFormedVersion(sv_result)
        /\ \A j \in 1..3 :
              ReadTriple(sv_result)[j] =
                  IF j < BumpIndex(sv_bump) THEN sv_triple[j]
                  ELSE IF j = BumpIndex(sv_bump) THEN sv_triple[j] + 1
                  ELSE 0

\* 1.2.3 bumped by minor came back as 1.3.0
C7_Witness ==
    /\ sv_pc = "returned"
    /\ sv_triple = <<1, 2, 3>>
    /\ sv_bump = "minor"
    /\ sv_result = <<"1", ".", "3", ".", "0">>


(***************************************************************************)
(* _analyze_commits and the bump decision of run_release on their own, on  *)
(* lists of commits since the last tag.                                    *)
(***************************************************************************)
\* message bodies as _git_commits_since returns them (stripped)
CommitBodies ==
    { <<"f","i","x",":"," ","a">>,
      <<"f","e","a","t",":"," ","a">>,
      <<"f","e","a","t","!",":"," ","a">>,
      <<"f","i","x",":"," ","a","\n","\n","B","R","E","A","K","I","N","G"," ","C","H","A","N","G","E",":"," ","b">>,
      <<"d","o","c","s",":"," ","a">>,
      <<"u","p","d","a","t","e">>,
      <<"u","p","d","a","t","e","\n","\n","B","R","E","A","K","I","N","G"," ","C","H","A","N","G","E",":"," ","b">>,
      <<"F","E","A","T","(","x",")",":"," ","a">>,
      <<"f","i","x","(","x",")","!",":"," ","a">>,
      <<"f","i","x",":"," ","a","\n","b","r","e","a","k","i","n","g"," ","c","h","a","n","g","e">>,
      <<"f","e","a","t",":","a">>,
      <<"f","i","x",":"," ","B","R","E","A","K","I","N","G"," ","C","H","A","N","G","E">>,
      <<"f","e","a","t","(","a",",","b",")",":"," ","a">>,
      <<>> }

\* the commit ids, newest first
Shas == << <<"a","b","c","d","e","f","0","1","2","3">>,
          <<"b","c","d","e","f","0","1","2","3","4">>,
          <<"c","d","e","f","0","1","2","3","4","5">>,
          <<"d","e","f","0","1","2","3","4","5","6">> >>

CommitLists ==
    {[k \in 1..Len(bs) |-> [sha |-> Shas[k], body |-> bs[k]]] :
        bs \in SeqsUpTo(CommitBodies, MaxCommits)}

InitBump ==
    /\ an_commits \in CommitLists
    /\ an_override \in BumpKinds \cup {None}
    /\ analysis = <<>>
    /\ bump = None
    /\ an_pc = "analyze"
    /\ CcIdle /\ SanIdle /\ RelIdle /\ SvIdle

\* analysis = _analyze_commits(commits)
Analyze ==
    /\ an_pc = "analyze"
    /\ analysis' = _analyze_commits(an_commits)
    /\ an_pc' = "decide"
    /\ UNCHANGED <<an_commits, an_override, bump>>

\* bump = bump_override or _decide_bump(analysis)
Decide ==
    /\ an_pc = "decide"
    /\ bump' = IF an_override # None THEN an_override ELSE _decide_bump(analysis)
    /\ an_pc' = "decided"
    /\ UNCHANGED <<an_commits, an_override, analysis>>

NextBump ==
    \/ Analyze /\ UNCHANGED <<ccVars, sanVars, relVars, svVars>>
    \/ Decide /\ UNCHANGED <<ccVars, sanVars, relVars, svVars>>

SpecBump == InitBump /\ [][NextBump]_vars

\* the header of a commit: the first line of its message that is not blank
HeaderOf(c) ==
    LET lines == SelectSeq(SplitLines(c.body), LAMBDA l : Strip(l) # <<>>)
    IN  IF lines = <<>> THEN <<>> ELSE lines[1]
\* the header matches the Conventional Commit grammar of the release engine
HeaderMatches(c) == CC_RE(HeaderOf(c)).matched
\* a header carrying the breaking marker
HeaderHasBang(c) == HeaderMatches(c) /\ CC_RE(HeaderOf(c)).breaking
\* a body containing the breaking-change marker: some line of the message
\* after the header holds BREAKING CHANGE, in either case of letters
BodyHasMarker(c) ==
    LET lines == SelectSeq(SplitLines(c.body), LAMBDA l : Strip(l) # <<>>)
    IN  \E k \in 2..Len(lines) : Contains(UpperStr(lines[k]), BREAKING_CHANGE)
IsFeat(c) == HeaderMatches(c) /\ CC_RE(HeaderOf(c)).type = T_feat

Decided == an_pc = "decided"
CommitsOf == {an_commits[k] : k \in 1..Len(an_commits)}

\* C6 (as claimed): with no override the bump is major if any commit has a
\* header carrying '!' or a body containing the breaking-change marker, else
\* minor if any commit is of type feat, else patch; an override is the bump.
C6_BumpFromAnyBodyMarker ==
    Decided =>
        bump = IF an_override # None THEN an_override
               ELSE IF \E c \in CommitsOf : HeaderHasBang(c) \/ BodyHasMarker(c)
               THEN "major"
               ELSE IF \E c \in CommitsOf : IsFeat(c) THEN "minor"
               ELSE "patch"

\* C6 (amended): with no override the bump is major if any commit whose
\* header matches the Conventional Commit grammar carries '!' in the header
\* or the breaking-change marker in a later line, else minor if any commit
\* is of type feat, else patch; an override is the bump.
C6_BumpFromMatchedCommits ==
    Decided =>
        bump = IF an_override # None THEN an_override
               ELSE IF \E c \in CommitsOf :
                          HeaderMatches(c) /\ (HeaderHasBang(c) \/ BodyHasMarker(c))
               THEN "major"
               ELSE IF \E c \in CommitsOf : IsFeat(c) THEN "minor"
               ELSE "patch"

\* a commit with the marker in its body and a header outside the grammar was
\* decided without an override, and the bump is not major
C6_Witness ==
    /\ Decided
    /\ an_override = None
    /\ \E c \in CommitsOf : BodyHasMarker(c) /\ ~HeaderMatches(c)
    /\ bump # "major"


(***************************************************************************)
(* run_release: the files and the git state it works on.                   *)
(***************************************************************************)
StartsWith(s, p) == Len(s) >= Len(p) /\ Take(s, Len(p)) = p

VERSION_KEY == <<"_","_","v","e","r","s","i","o","n","_","_">>
CHANGELOG_MD == "CHANGELOG.md"
INIT_PY == "aicommit/__init__.py"

\* the paths git status reports on, and what it reports of each
RelPaths == <<"a", "b">>
RelKinds == {"clean", "staged", "unstaged", "untracked"}
XY(kind) ==
    CASE kind = "staged" -> <<"M", " ">>
      [] kind = "unstaged" -> <<" ", "M">>
      [] OTHER -> <<"?", "?">>

\* r.stdout of git status --porcelain
StatusStdout(kinds) ==
    Flatten([k \in 1..Len(RelPaths) |->
                IF kinds[k] = "clean" THEN <<>>
                ELSE XY(kinds[k]) \o <<" ", RelPaths[k], "\n">>])

\* a cleanliness test that takes untracked entries for changes as well
DirtyCountsUntracked(stdout) ==
    SelectSeq(SplitLines(stdout), LAMBDA ln : ln # <<>>)

\* dirty of run_release
dirty(stdout) ==
    SelectSeq(SplitLines(stdout),
              LAMBDA ln : ln # <<>> /\ ~StartsWith(ln, <<"?", "?", " ">>))

\* the lines of aicommit/__init__.py: with a version, without one, and with
\* a version that is no triple
VF_123 == << <<"_","_","v","e","r","s","i","o","n","_","_"," ","="," ","\"","1",".","2",".","3","\"","\n">>,
             <<"x"," ","="," ","1","\n">> >>
VF_NONE == << <<"x"," ","="," ","1","\n">> >>
VF_BAD == << <<"_","_","v","e","r","s","i","o","n","_","_"," ","="," ","\"","1",".","2","\"","\n">> >>
VersionFiles == {VF_123, VF_NONE, VF_BAD}

\* _read_current_version_from_file, for a package whose __version__ is what
\* its __init__.py assigns
_read_current_version_from_file(lines) ==
    LET vl == SelectSeq(lines, LAMBDA l : StartsWith(Strip(l), VERSION_KEY))
        parts == SplitOn(vl[1], "=")
    IN  IF vl = <<>> THEN <<"0", ".", "0", ".", "0">>
        ELSE StripSet(StripSet(Strip(parts[Len(parts)]), {"\""}), {"'"})

\* _update_version_file: the lines written back
_update_version_file(lines, new_version) ==
    [k \in 1..Len(lines) |->
        IF StartsWith(Strip(lines[k]), VERSION_KEY)
        THEN VERSION_KEY \o <<" ", "=", " ", "\"">> \o new_version \o <<"\"", "\n">>
        ELSE lines[k]]

T_BREAKING == <<"B","r","e","a","k","i","n","g"," ","C","h","a","n","g","e","s">>
T_FEATURES == <<"F","e","a","t","u","r","e","s">>
T_FIXES == <<"B","u","g"," ","F","i","x","e","s">>
T_OTHER == <<"O","t","h","e","r"," ","C","h","a","n","g","e","s">>

\* the lines of one section of the changelog; none for an empty bucket
SectionLines(title, items) ==
    IF items = <<>> THEN <<>>
    ELSE << <<"#", "#", "#", " ">> \o title \o <<"\n">> >>
         \o [k \in 1..Len(items) |->
                <<"-", " ">> \o items[k].subject \o <<" ", "(">>
                \o Take(items[k].sha, IF Len(items[k].sha) < 7 THEN Len(items[k].sha) ELSE 7)
                \o <<")", "\n">>]
         \o << <<"\n">> >>

\* _prepend_changelog: the lines of CHANGELOG.md after the call
_prepend_changelog(existing, new_version, an, today) ==
    << <<"#", "#", " ", "v">> \o new_version \o <<" ", "-", " ">> \o today \o <<"\n">>,
       <<"\n">> >>
    \o SectionLines(T_BREAKING, an.breaking)
    \o SectionLines(T_FEATURES, an.feat)
    \o SectionLines(T_FIXES, an.fix)
    \o SectionLines(T_OTHER, an.other)
    \o existing

\* how the three commands of _git_commit_and_tag end: all succeed, or one of
\* them exits with a status that is not zero
GitOutcomes == {"ok", "add_fails", "commit_fails", "tag_fails"}

\* the three commands run without check=True: a failure stops nothing
RunGitCommandsUnchecked(r, new_version, outcome) ==
    LET add    == [cmd |-> "add", ok |-> outcome # "add_fails",
                   paths |-> <<CHANGELOG_MD, INIT_PY>>]
        commit == [cmd |-> "commit", ok |-> outcome # "commit_fails"]
        tag    == [cmd |-> "tag", ok |-> outcome # "tag_fails"]
        index1 == IF add.ok THEN r.index \cup {CHANGELOG_MD, INIT_PY} ELSE r.index
        rec    == [message |-> <<"c","h","o","r","e","(","r","e","l","e","a","s","e",")",":"," ","v">> \o new_version, paths |-> index1]
    IN  [r EXCEPT !.cmds = @ \o <<add, commit, tag>>,
                  !.index = IF commit.ok THEN {} ELSE index1,
                  !.commits = IF commit.ok THEN Append(@, rec) ELSE @,
                  !.tags = IF tag.ok THEN @ \cup {<<"v">> \o new_version} ELSE @]

\* the three subprocess.run(..., check=True) of _git_commit_and_tag, up to the
\* first that fails
RunGitCommands(r, new_version, outcome) ==
    LET add    == [cmd |-> "add", ok |-> outcome # "add_fails",
                   paths |-> <<CHANGELOG_MD, INIT_PY>>]
        commit == [cmd |-> "commit", ok |-> outcome # "commit_fails"]
        tag    == [cmd |-> "tag", ok |-> outcome # "tag_fails"]
        index1 == r.index \cup {CHANGELOG_MD, INIT_PY}
        rec    == [message |-> <<"c","h","o","r","e","(","r","e","l","e","a","s","e",")",":"," ","v">> \o new_version, paths |-> index1]
    IN  IF outcome = "add_fails"
        THEN [r EXCEPT !.cmds = @ \o <<add>>, !.error = "CalledProcessError"]
        ELSE IF outcome = "commit_fails"
        THEN [r EXCEPT !.cmds = @ \o <<add, commit>>, !.index = index1,
                       !.error = "CalledProcessError"]
        ELSE IF outcome = "tag_fails"
        THEN [r EXCEPT !.cmds = @ \o <<add, commit, tag>>, !.index = {},
                       !.commits = Append(@, rec), !.error = "CalledProcessError"]
        ELSE [r EXCEPT !.cmds = @ \o <<add, commit, tag>>, !.index = {},
                       !.commits = Append(@, rec),
                       !.tags = @ \cup {<<"v">> \o new_version}]

\* a release step that runs the three commands in preview mode as well
GitCommitAndTagNoPreview(r, new_version, dry_run, outcome) ==
    RunGitCommands(r, new_version, outcome)

\* _git_commit_and_tag: the run after the call
_git_commit_and_tag(r, new_version, dry_run, outcome) ==
    IF dry_run THEN r
    ELSE RunGitCommands(r, new_version, outcome)


(***************************************************************************)
(* run_release, called once in preview mode and once normally from the     *)
(* same starting state: rel[TRUE] is the run with dry_run=True, rel[FALSE] *)
(* the run with dry_run=False.                                             *)
(***************************************************************************)
RelBodies ==
    { <<"f","i","x",":"," ","a">>,
      <<"f","e","a","t",":"," ","a">>,
      <<"f","e","a","t","!",":"," ","a">> }

RelCommitLists ==
    {[k \in 1..Len(bs) |-> [sha |-> Shas[k], body |-> bs[k]]] :
        bs \in SeqsUpTo(RelBodies, MaxRelCommits)}

\* CHANGELOG.md before the release: missing or empty, or with lines in it
Changelogs == {<<>>, << <<"#"," ","C","h","a","n","g","e","l","o","g","\n">> >>}
\* date.today().isoformat()
Today == <<"2","0","2","6","-","0","1","-","0","1">>

EmptyAnalysis == [breaking |-> <<>>, feat |-> <<>>, fix |-> <<>>, other |-> <<>>]

\* a call of run_release that has not begun
RunStart(in) ==
    [pc |-> "check", error |-> None,
     version_file |-> in.version_file, changelog |-> in.changelog,
     index |-> in.index, commits |-> <<>>, tags |-> {}, cmds |-> <<>>,
     analysis |-> EmptyAnalysis, new_version |-> <<>>, ret |-> <<>>]

InitRelease ==
    /\ \E kinds \in [1..Len(RelPaths) -> RelKinds], vf \in VersionFiles,
          cs \in RelCommitLists, ov \in BumpKinds \cup {None}, cl \in Changelogs :
          rel_in = [kinds |-> kinds, version_file |-> vf, commits |-> cs,
                    override |-> ov, changelog |-> cl,
                    index |-> {RelPaths[k] : k \in {j \in 1..Len(RelPaths) :
                                                        kinds[j] = "staged"}}]
    /\ rel = [d \in BOOLEAN |-> RunStart(rel_in)]
    /\ CcIdle /\ SanIdle /\ AnIdle /\ SvIdle

\* the status check at the head of run_release: SystemExit on a dirty tree
ReleaseCheck(d) ==
    /\ rel[d].pc = "check"
    /\ rel' = [rel EXCEPT ![d].pc =
                  IF dirty(StatusStdout(rel_in.kinds)) # <<>> THEN "exit" ELSE "compute"]
    /\ UNCHANGED rel_in

\* current, commits, analysis, bump and new_version of run_release
ReleaseCompute(d) ==
    /\ rel[d].pc = "compute"
    /\ LET current == _read_current_version_from_file(rel[d].version_file)
           an == _analyze_commits(rel_in.commits)
           b == IF rel_in.override # None THEN rel_in.override ELSE _decide_bump(an)
           new_version == _semver_bump(current, b)
       IN  rel' = [rel EXCEPT ![d] =
                      IF new_version = ValueError
                      THEN [@ EXCEPT !.pc = "raised", !.error = "ValueError"]
                      ELSE [@ EXCEPT !.pc = "update", !.analysis = an,
                                     !.new_version = new_version]]
    /\ UNCHANGED rel_in

\* _update_version_file(new_version)
ReleaseUpdateVersion(d) ==
    /\ rel[d].pc = "update"
    /\ rel' = [rel EXCEPT ![d].version_file =
                              _update_version_file(@, rel[d].new_version),
                          ![d].pc = "changelog"]
    /\ UNCHANGED rel_in

\* _prepend_changelog(new_version, analysis)
ReleasePrependChangelog(d) ==
    /\ rel[d].pc = "changelog"
    /\ rel' = [rel EXCEPT ![d].changelog =
                              _prepend_changelog(@, rel[d].new_version,
                                                 rel[d].analysis, Today),
                          ![d].pc = "tag"]
    /\ UNCHANGED rel_in

\* _git_commit_and_tag(new_version, dry_run=dry_run); return new_version
ReleaseCommitAndTag(d) ==
    /\ rel[d].pc = "tag"
    /\ \E outcome \in GitOutcomes :
         LET r == _git_commit_and_tag(rel[d], rel[d].new_version, d, outcome)
         IN  rel' = [rel EXCEPT ![d] =
                        IF r.error # None THEN [r EXCEPT !.pc = "raised"]
                        ELSE [r EXCEPT !.pc = "returned", !.ret = r.new_version]]
    /\ UNCHANGED rel_in

NextRelease ==
    \/ (\E d \in BOOLEAN : ReleaseCheck(d))
          /\ UNCHANGED <<ccVars, sanVars, anVars, svVars>>
    \/ (\E d \in BOOLEAN : ReleaseCompute(d))
          /\ UNCHANGED <<ccVars, sanVars, anVars, svVars>>
    \/ (\E d \in BOOLEAN : ReleaseUpdateVersion(d))
          /\ UNCHANGED <<ccVars, sanVars, anVars, svVars>>
    \/ (\E d \in BOOLEAN : ReleasePrependChangelog(d))
          /\ UNCHANGED <<ccVars, sanVars, anVars, svVars>>
    \/ (\E d \in BOOLEAN : ReleaseCommitAndTag(d))
          /\ UNCHANGED <<ccVars, sanVars, anVars, svVars>>

SpecRelease == InitRelease /\ [][NextRelease]_vars


(***************************************************************************)
(* Claims about run_release.                                               *)
(***************************************************************************)
\* the status output holds a staged or unstaged change of a tracked path
TreeDirty == \E k \in 1..Len(RelPaths) : rel_in.kinds[k] \in {"staged", "unstaged"}

\* no stage, commit or tag command was issued and the index, the commits and
\* the tags are those of the starting state
HistoryUnmodified(r) ==
    /\ r.cmds = <<>>
    /\ r.index = rel_in.index
    /\ r.commits = <<>>
    /\ r.tags = {}

FilesUnmodified(r) ==
    /\ r.version_file = rel_in.version_file
    /\ r.changelog = rel_in.changelog

\* C4: on a status output with a staged or unstaged change of a tracked path
\* run_release ends in the fatal error with the version file, the changelog
\* and the git state untouched; on a status output with untracked entries
\* only, or none, it does not end in that error and goes on to the release.
C4_DirtyTreeRefused ==
    \A d \in BOOLEAN :
        /\ TreeDirty =>
              /\ rel[d].pc \in {"check", "exit"}
              /\ FilesUnmodified(rel[d])
              /\ HistoryUnmodified(rel[d])
        /\ ~TreeDirty => rel[d].pc # "exit"
        /\ rel[d].pc = "check" => FilesUnmodified(rel[d]) /\ HistoryUnmodified(rel[d])

\* a run was refused on a status output that lists an untracked path next to
\* a path with a staged change
C4_Witness ==
    \E d \in BOOLEAN :
        /\ rel[d].pc = "exit"
        /\ rel_in.kinds[1] = "untracked"
        /\ rel_in.kinds[2] = "staged"

\* the run has written the version file and the changelog
FilesWritten(r) ==
    \/ r.pc \in {"tag", "returned"}
    \/ r.error = "CalledProcessError"

\* C5 (as claimed): a preview run returns the version a normal run from the
\* same state returns, and leaves the version file, the changelog, the index,
\* the commits and the tags unmodified.
C5_PreviewModifiesNothing ==
    /\ (rel[TRUE].pc = "returned" /\ rel[FALSE].pc = "returned")
          => rel[TRUE].ret = rel[FALSE].ret
    /\ FilesUnmodified(rel[TRUE])
    /\ HistoryUnmodified(rel[TRUE])

\* C5 (amended): a preview run returns the version a normal run from the same
\* state returns, issues no stage, commit or tag command and leaves the index,
\* the commits and the tags unmodified; the version file and the changelog it
\* writes exactly as the normal run does.
C5_PreviewLeavesHistoryOnly ==
    /\ (rel[TRUE].pc = "returned" /\ rel[FALSE].pc = "returned")
          => rel[TRUE].ret = rel[FALSE].ret
    /\ HistoryUnmodified(rel[TRUE])
    /\ (FilesWritten(rel[TRUE]) /\ FilesWritten(rel[FALSE])) =>
          /\ rel[TRUE].version_file = rel[FALSE].version_file
          /\ rel[TRUE].changelog = rel[FALSE].changelog
          /\ rel[TRUE].new_version = rel[FALSE].new_version
    /\ (rel[TRUE].pc = "raised") => rel[TRUE].error = "ValueError"

\* a preview and a normal run have both returned: the normal run has tagged
\* the release, the preview has rewritten the version file and the changelog
C5_Witness ==
    /\ rel[TRUE].pc = "returned"
    /\ rel[FALSE].pc = "returned"
    /\ rel[FALSE].tags # {}
    /\ rel[TRUE].version_file # rel_in.version_file
    /\ rel[TRUE].changelog # rel_in.changelog


(***************************************************************************)
(* Further claims about commit_changes.                                    *)
(***************************************************************************)
\* the staging command of iteration k failed
StageFailedAt(k) == \E c \in StageCmdsOf(k) : ~git_cmds[c].ok
\* the commit commands of the run that name path p
CommitCmdsNaming(p) ==
    {j \in 1..Len(git_cmds) :
        git_cmds[j].cmd = "commit" /\ p \in Range(git_cmds[j].paths)}

\* C11: an iteration whose staging command fails ends at once: it requests no
\* diff, calls no message generator and issues no commit command; and when
\* its path is one of the changed paths get_diffed_files lists, no commit
\* command of the whole run names that path.
C11_StageFailureEndsIteration ==
    \A c \in 1..Len(git_cmds) :
        (git_cmds[c].cmd \in {"add -A", "rm", "add -f"} /\ ~git_cmds[c].ok) =>
            LET k == git_cmds[c].iter
            IN  /\ CmdsOf(diff_cmds, k) = {}
                /\ CmdsOf(gen_calls, k) = {}
                /\ CommitCmdsOf(k) = {}
                /\ StageCmdsOf(k) = {c}
                /\ Over(k) /\ pc # "raised"
                /\ files[k] \in Range(get_diffed_files(status_out))
                      => CommitCmdsNaming(files[k]) = {}

\* a staging command failed and the run went on to commit another path
C11_Witness ==
    \E k \in Iters :
        /\ StageFailedAt(k)
        /\ \E j \in Iters : j > k /\ CommitCmdsOf(j) # {}
        /\ pc = "done"


\* the two paths of the rename that iteration k meets
PairOf(k) == {DetailsOf(k).orig, files[k]}
\* iteration k staged the pair itself (a rename seen in the working tree)
PairStagedAt(k) ==
    \E c \in StageCmdsOf(k) : git_cmds[c].cmd = "add -A" /\ git_cmds[c].ok
\* iteration k committed the pair
PairCommittedAt(k) ==
    /\ DetailsOf(k).orig # None
    /\ \E c \in CommitCmdsOf(k) : git_cmds[c].ok
\* iteration k handled a rename pair: it staged it, or committed it
PairHandledAt(k) == PairStagedAt(k) \/ PairCommittedAt(k)
\* iteration j issued a stage, diff or commit command naming a path of P
TouchedAt(j, P) ==
    \/ \E c \in StageCmdsOf(j) \cup CommitCmdsOf(j) : Range(git_cmds[c].paths) \cap P # {}
    \/ \E c \in CmdsOf(diff_cmds, j) : Range(diff_cmds[c].paths) \cap P # {}
\* no iteration after k works on a path of the pair of iteration k
NotHandledAgain(k) ==
    \A j \in Iters :
        j > k =>
            /\ ~TouchedAt(j, PairOf(k))
            /\ (files[j] \in PairOf(k) /\ j <= Len(visits)) => visits[j] = "skipped"

\* C12 (as claimed): once an iteration has handled a rename pair, staged
\* before the run or by that iteration, old and new are marked processed and
\* no later iteration stages, diffs or commits old or new.
C12_PairNeverHandledAgain ==
    \A k \in Iters :
        PairHandledAt(k) =>
            /\ PairOf(k) \subseteq processed
            /\ NotHandledAgain(k)

\* C12 (amended): once an iteration has staged a rename pair itself, old and
\* new are marked processed and no later iteration stages, diffs or commits
\* old or new; of a pair that was staged before the run only new is marked
\* processed, once its commit has succeeded.
C12_StagedPairNeverHandledAgain ==
    \A c \in 1..Len(git_cmds) :
        LET k == git_cmds[c].iter
        IN  /\ (git_cmds[c].cmd = "add -A" /\ git_cmds[c].ok) =>
                  /\ PairOf(k) \subseteq processed
                  /\ NotHandledAgain(k)
            /\ (git_cmds[c].cmd = "commit" /\ git_cmds[c].ok
                  /\ DetailsOf(k).orig # None) => files[k] \in processed

\* a run is over that staged a rename pair and later passed over its old path
C12_Witness ==
    /\ pc = "done"
    /\ \E k \in Iters :
          /\ PairStagedAt(k)
          /\ \E j \in Iters : j > k /\ files[j] = DetailsOf(k).orig
                                    /\ visits[j] = "skipped"


(***************************************************************************)
(* Claims about the buckets of _analyze_commits.                           *)
(***************************************************************************)
Analyzed == an_pc \in {"decide", "decided"}
\* how often the commit with this id stands in a bucket
CountIn(bucket, sha) == Cardinality({j \in 1..Len(bucket) : bucket[j].sha = sha})
\* what the claim says of a commit: whether its header matches the grammar,
\* carries '!', whether its body holds the token, and its type bucket
FactsOf(c) ==
    LET m == CC_RE(HeaderOf(c))
    IN  [matched |-> m.matched,
         bang    |-> m.matched /\ m.breaking,
         marker  |-> BodyHasMarker(c),
         bucket  |-> IF m.matched /\ m.type = T_feat THEN "feat"
                     ELSE IF m.matched /\ m.type = T_fix THEN "fix"
                     ELSE "other"]

\* commit c stands once in its type bucket and in no other type bucket
InOneTypeBucket(c, f) ==
    /\ CountIn(analysis.feat, c.sha) = (IF f.bucket = "feat" THEN 1 ELSE 0)
    /\ CountIn(analysis.fix, c.sha) = (IF f.bucket = "fix" THEN 1 ELSE 0)
    /\ CountIn(analysis.other, c.sha) = (IF f.bucket = "other" THEN 1 ELSE 0)
\* the type buckets hold nothing but the commits of the list
NothingElse ==
    /\ Len(analysis.feat) + Len(analysis.fix) + Len(analysis.other) = Len(an_commits)
    /\ Len(analysis.breaking) <= Len(an_commits)

\* C13 (as claimed): every commit is in exactly one of feat / fix / other, and
\* in the breaking bucket as well exactly when its header carries '!' or a
\* later line of its body holds the breaking-change token.
C13_BreakingFromAnyBody ==
    Analyzed =>
        /\ NothingElse
        /\ \A k \in 1..Len(an_commits) :
              LET c == an_commits[k]
                  f == FactsOf(c)
              IN  /\ InOneTypeBucket(c, f)
                  /\ CountIn(analysis.breaking, c.sha) =
                        (IF f.bang \/ f.marker THEN 1 ELSE 0)

\* C13 (amended): every commit is in exactly one of feat / fix / other, and in
\* the breaking bucket as well exactly when its header matches the grammar
\* and carries '!' or a later line of its body holds the breaking-change
\* token; the buckets hold nothing else.
C13_BreakingFromMatchedOnly ==
    Analyzed =>
        /\ NothingElse
        /\ \A k \in 1..Len(an_commits) :
              LET c == an_commits[k]
                  f == FactsOf(c)
              IN  /\ InOneTypeBucket(c, f)
                  /\ CountIn(analysis.breaking, c.sha) =
                        (IF f.matched /\ (f.bang \/ f.marker) THEN 1 ELSE 0)

\* two commits were analyzed: one stands in the breaking bucket and in its
\* type bucket, the other has the token in its body under a header outside
\* the grammar and stands under other alone
C13_Witness ==
    /\ Analyzed
    /\ Len(an_commits) = 2
    /\ \E j, k \in 1..2 :
          /\ CountIn(analysis.breaking, an_commits[j].sha) = 1
          /\ CountIn(analysis.feat, an_commits[j].sha) = 1
          /\ BodyHasMarker(an_commits[k]) /\ ~HeaderMatches(an_commits[k])
          /\ CountIn(analysis.other, an_commits[k].sha) = 1
          /\ CountIn(analysis.breaking, an_commits[k].sha) = 0


(***************************************************************************)
(* The order of the steps of a normal run_release.                         *)
(***************************************************************************)
RELEASE_MSG == <<"c","h","o","r","e","(","r","e","l","e","a","s","e",")",":"," ","v">>
\* the normal run has not written the version file yet
BeforeUpdate(r) ==
    \/ r.pc \in {"check", "exit", "compute", "update"}
    \/ r.error = "ValueError"
\* the commands of the run are a beginning of stage, commit, tag, each begun
\* only after the one before it succeeded
CommandsInOrder(r) ==
    /\ Len(r.cmds) <= 3
    /\ \A k \in 1..Len(r.cmds) :
          /\ r.cmds[k].cmd = <<"add", "commit", "tag">>[k]
          /\ k < Len(r.cmds) => r.cmds[k].ok
    /\ r.cmds # <<>> => r.cmds[1].paths = <<CHANGELOG_MD, INIT_PY>>

\* C14: a normal run that passed the cleanliness check writes the version
\* file, then prepends the changelog, then stages exactly the two artifacts,
\* then commits, then tags with the new version; a failed stage or commit
\* command stops the run, so the tag exists only after the release commit.
C14_ReleaseStepsInOrder ==
    LET r  == rel[FALSE]
        vf == _update_version_file(rel_in.version_file, r.new_version)
        cl == _prepend_changelog(rel_in.changelog, r.new_version, r.analysis, Today)
    IN  /\ BeforeUpdate(r) => FilesUnmodified(r) /\ HistoryUnmodified(r)
        /\ r.pc = "changelog" =>
              /\ r.version_file = vf
              /\ r.changelog = rel_in.changelog
              /\ HistoryUnmodified(r)
        /\ r.pc = "tag" =>
              /\ r.version_file = vf
              /\ r.changelog = cl
              /\ HistoryUnmodified(r)
        /\ CommandsInOrder(r)
        /\ r.cmds # <<>> => r.version_file = vf /\ r.changelog = cl
        /\ (\E k \in 1..Len(r.cmds) : ~r.cmds[k].ok) => r.pc = "raised"
        /\ r.commits # <<>> =>
              /\ Len(r.cmds) >= 2 /\ r.cmds[2].ok
              /\ r.commits = <<[message |-> RELEASE_MSG \o r.new_version,
                                paths |-> {CHANGELOG_MD, INIT_PY}]>>
        /\ r.commits = <<>> => r.tags = {}
        /\ r.tags # {} =>
              /\ r.tags = {<<"v">> \o r.new_version}
              /\ Len(r.cmds) = 3 /\ r.cmds[3].ok
        /\ r.pc = "returned" => r.tags # {} /\ r.ret = r.new_version

\* the commit command of a normal run failed after the two artifacts were
\* written and staged: the run stopped and there is no tag
C14_Witness ==
    LET r == rel[FALSE]
    IN  /\ r.pc = "raised"
        /\ Len(r.cmds) = 2
        /\ r.cmds[1].ok /\ ~r.cmds[2].ok
        /\ r.index = {CHANGELOG_MD, INIT_PY}
        /\ r.changelog # rel_in.changelog
        /\ r.tags = {}


(***************************************************************************)
(* commit_changes as a loop that ends: every step of the function is a     *)
(* blocking call that returns, so a step that can be taken is taken.       *)
(***************************************************************************)
\* the repositories in which at most two of the paths have changes
LiveWorlds == {w \in Worlds : w["c.txt"].kind = "clean"}

InitLive ==
    /\ \E w \in LiveWorlds :
         /\ staged = WorldStaged(w)
         /\ worktree = WorldWorktree(w)
         /\ status_out = WorldStatus(w)
    /\ staged0 = staged
    /\ files \in FileLists
    /\ idx = 1
    /\ pc = "start"
    /\ status_map = <<>>
    /\ details_map = <<>>
    /\ processed = {}
    /\ cur = DefaultDetails
    /\ diff = {}
    /\ commit_message = <<>>
    /\ commits = <<>>
    /\ git_cmds = <<>>
    /\ diff_cmds = <<>>
    /\ gen_calls = <<>>
    /\ visits = <<>>
    /\ diff_log = <<>>
    /\ SanIdle /\ RelIdle /\ AnIdle /\ SvIdle

SpecLive == InitLive /\ [][Next]_vars /\ WF_vars(Next)

\* the entries of a log stand in the order of the iterations
InIterOrder(log) ==
    \A i, j \in 1..Len(log) : i < j => log[i].iter <= log[j].iter

\* one pass, in list order, with at most one generator call and one commit
\* command per visit
OnePass ==
    /\ idx \in 1..(Len(files) + 1)
    /\ Len(visits) = (IF pc \in {"start", "loop", "done"} THEN idx - 1 ELSE idx)
    /\ \A k \in Iters :
          /\ Cardinality(CmdsOf(gen_calls, k)) <= 1
          /\ Cardinality(CommitCmdsOf(k)) <= 1
          /\ Cardinality(CmdsOf(commits, k)) <= 1
    /\ InIterOrder(git_cmds) /\ InIterOrder(diff_cmds)
    /\ InIterOrder(gen_calls) /\ InIterOrder(commits)
    /\ \A j \in 1..Len(git_cmds) : git_cmds[j].iter <= Len(visits)
    /\ \A j \in 1..Len(gen_calls) : gen_calls[j].iter \in 1..Len(visits)
    /\ \A j \in 1..Len(commits) : commits[j].iter \in 1..Len(visits)
    /\ Len(commits) <= Len(files)
    /\ pc # "raised"
    /\ pc = "done" => Len(visits) = Len(files)

\* C15: commit_changes makes one pass over its list, in list order, with at
\* most one generator call and one commit command per visit and no more
\* commits than elements, and every run reaches its end whatever fails.
C15_OnePassAndTerminates ==
    /\ []OnePass
    /\ [][idx' \in {idx, idx + 1}]_vars
    /\ <>(pc = "done")

\* a run over two paths is over: a generator call failed, a commit command
\* failed and one commit was made
C15_Witness ==
    /\ pc = "done"
    /\ Len(files) = 2
    /\ \E j \in 1..Len(gen_calls) : gen_calls[j].failed
    /\ \E j \in 1..Len(git_cmds) : git_cmds[j].cmd = "commit" /\ ~git_cmds[j].ok
    /\ Len(commits) = 1


====
